---- MODULE Spec2Model ----
(***************************************************************************)
(* Model of ia.py: the Internet Archive torrent downloader.                *)
(*                                                                         *)
(* Strings are sequences of tokens.  A token is a TLA+ string standing for *)
(* a run of characters that holds neither '/' nor whitespace, except the   *)
(* tokens "/" and " " themselves.  Upper-case tokens are the ones          *)
(* LowerTok maps.                                                          *)
(***************************************************************************)
EXTENDS Integers, Sequences, FiniteSets, TLC

\* ------------------------------------------------------------------ bounds
MaxRetries == 3      \* largest configured max_retries drawn
MaxItems == 6        \* largest number of docs the search returns
MaxChunks == 2       \* longest response body, in chunks

\* -------------------------------------------------------- program constants
max_workers == 5
default_threshold == 70
OK200 == 200

\* ---------------------------------------------------------------- strings
RECURSIVE LastSlash(_, _)
\* index of the last "/" of s at or before position n, 0 when there is none
LastSlash(s, n) ==
  IF n = 0 THEN 0
  ELSE IF s[n] = "/" THEN n ELSE LastSlash(s, n - 1)

\* url.split('/')[-1]
LastSegment(s) == SubSeq(s, LastSlash(s, Len(s)) + 1, Len(s))

\* os.path.join(dest_folder, name) for a relative name
PathJoin(dest_folder, name) ==
  IF dest_folder = <<>> THEN name
  ELSE IF dest_folder[Len(dest_folder)] = "/" THEN dest_folder \o name
  ELSE dest_folder \o <<"/">> \o name

\* str.lower() on one token
LowerTok(t) ==
  CASE t = "A" -> "a"
    [] t = "B" -> "b"
    [] t = "U" -> "u"
    [] OTHER -> t

\* str.lower()
Lower(s) == [k \in 1..Len(s) |-> LowerTok(s[k])]

IsSpace(t) == t = " "

RECURSIVE SplitFrom(_, _, _)
\* str.split(): the maximal runs of non-whitespace tokens of s from position k on;
\* cur is the run being read
SplitFrom(s, k, cur) ==
  IF k > Len(s) THEN (IF cur = <<>> THEN <<>> ELSE <<cur>>)
  ELSE IF IsSpace(s[k])
       THEN (IF cur = <<>> THEN <<>> ELSE <<cur>>) \o SplitFrom(s, k + 1, <<>>)
       ELSE SplitFrom(s, k + 1, Append(cur, s[k]))

Split(s) == SplitFrom(s, 1, <<>>)

\* str.endswith(suffix)
EndsWith(s, suffix) ==
  /\ Len(s) >= Len(suffix)
  /\ SubSeq(s, Len(s) - Len(suffix) + 1, Len(s)) = suffix

TorrentSuffix == <<".", "torrent">>

download_dir == <<"torrent_files">>

\* a plausible slip: dest_folder is not joined, the file lands in the working directory
FilenameNoJoin(url, dest_folder) == LastSegment(url)

\* filename = os.path.join(dest_folder, url.split('/')[-1])
Filename(url, dest_folder) == PathJoin(dest_folder, LastSegment(url))

MetadataUrl(identifier) ==
  <<"https:", "/", "/", "archive.org", "/", "metadata", "/">> \o identifier

TorrentUrl(identifier, name) ==
  <<"https:", "/", "/", "archive.org", "/", "download", "/">>
    \o identifier \o <<"/">> \o name

SeqToSet(s) == {s[k] : k \in 1..Len(s)}

\* ------------------------------------------------------------------ state
VARIABLES
  keyword,      \* main's keyword: <<>> is None, <<s>> is the string s
  max_retries,  \* the configured retry count
  server,       \* what the archive holds and how its endpoints may answer
  ratio,        \* fuzz.partial_ratio, as a table over the pairs it is asked
  disk,         \* the file system: path -> content (a sequence of chunks)
  mpc,          \* main's position: "search", "submit", "done"
  mlog,         \* what main's thread logged and requested, in order
  items,        \* search_items' result: the docs' identifiers
  nsub,         \* index of the next item main submits
  queue,        \* the executor's work queue: indices of submitted items
  nthreads,     \* worker threads the executor has started
  idle_sem,     \* the executor's idle semaphore
  pc,           \* per item: "new", "queued", "meta", "check", "fetch", "stream", "done"
  files,        \* per item: torrent_files, the names download_torrent kept
  fidx,         \* per item: index in files of the file being downloaded
  attempt,      \* per item: download_file's loop variable
  pos,          \* per item: chunks written by the open file handle
  trace,        \* per item: what its thread logged and requested, in order
  mcalls,       \* per item: the names match_terms was called with (line 104)
  mret,         \* what main gave back to its caller, NotReturned while it runs
  mt            \* a direct call of match_terms: its arguments and result

progvars == <<keyword, max_retries, server, disk, mpc, mlog, items, nsub, queue,
              nthreads, idle_sem, pc, files, fidx, attempt, pos, trace, mcalls, mret>>
vars == <<progvars, ratio, mt>>

\* The value main hands to its caller: None (a value is its type and content)
PyNone == [type |-> "NoneType", val |-> <<>>]
\* main has not returned yet
NotReturned == [type |-> "", val |-> <<>>]

\* One entry of a thread's trace: a log line (msg names the line's message and the
\* other fields the values it interpolates) or, with msg = "GET", a request that the
\* thread issued (what: its url, code: the status answered, 0 when none was).
Ev(msg, what, code, err, k, n) ==
  [msg |-> msg, what |-> what, code |-> code, err |-> err, k |-> k, n |-> n]

\* ---------------------------------------------------------------- matcher
\* fuzz.partial_ratio(term, text): a score in 0..100
partial_ratio(term, text) == ratio[<<term, text>>]

RECURSIVE MatchFromAny(_, _, _, _)
\* a plausible slip: one matching term is enough
MatchFromAny(terms, k, text, threshold) ==
  IF k > Len(terms) THEN terms = <<>>
  ELSE IF partial_ratio(terms[k], Lower(text)) >= threshold THEN TRUE
  ELSE MatchFromAny(terms, k + 1, text, threshold)

RECURSIVE MatchFrom(_, _, _, _)
\* the loop of match_terms from the k-th term on
MatchFrom(terms, k, text, threshold) ==
  IF k > Len(terms) THEN TRUE
  ELSE IF partial_ratio(terms[k], Lower(text)) < threshold THEN FALSE
  ELSE MatchFrom(terms, k + 1, text, threshold)

match_terms(text, kw, threshold) ==
  MatchFrom(Split(Lower(kw)), 1, text, threshold)

\* `if keyword:` : neither None nor ""
Truthy(kw) == kw # <<>> /\ kw[1] # <<>>

IsTorrent(name) == EndsWith(name, TorrentSuffix)

KeepsName(name) == match_terms(name, keyword[1], default_threshold)

\* the names line 104 calls match_terms with, in order: none without a keyword
MatcherCalls(doc_files) ==
  IF Truthy(keyword) THEN SelectSeq(doc_files, IsTorrent) ELSE <<>>

\* a plausible slip: the keyword filter of line 104 is left out
TorrentFilesUnfiltered(doc_files) == SelectSeq(doc_files, IsTorrent)

\* a plausible slip: the suffix filter sits inside the keyword branch, so without a
\* keyword every entry of the files array is kept
TorrentFilesSuffixInBranch(doc_files) ==
  IF Truthy(keyword) THEN SelectSeq(SelectSeq(doc_files, IsTorrent), KeepsName)
  ELSE doc_files

\* download_torrent's two list comprehensions
TorrentFiles(doc_files) ==
  LET torrent_files == SelectSeq(doc_files, IsTorrent)
  IN IF Truthy(keyword) THEN SelectSeq(torrent_files, KeepsName) ELSE torrent_files

\* --------------------------------------------------------------- executor
Running == {i \in 1..Len(items) : pc[i] \in {"meta", "check", "fetch", "stream"}}

AllDone == \A i \in 1..Len(items) : pc[i] = "done"

\* a plausible slip: a thread per submitted item, the pool's width ignored
SpawnUnbounded == idle_sem = 0

\* ThreadPoolExecutor._adjust_thread_count: reuse a thread that reported idle, else
\* start one while fewer than max_workers exist
SpawnNeeded == idle_sem = 0 /\ nthreads < max_workers

\* ------------------------------------------------------------------- main
SearchUrl == <<"https:", "/", "/", "archive.org", "/", "advancedsearch.php">>

\* a plausible slip: the handler logs the failure and the docs are used all the same
SearchKeepsDocs ==
  /\ mpc = "search"
  /\ \E a \in server.search :
       /\ items' = server.docs
       /\ mlog' = mlog \o <<Ev("searching", SearchUrl, 0, "", 0, 0)>> \o
            (IF a.ok
             THEN <<Ev("GET", SearchUrl, OK200, "", 0, 0),
                    Ev("found", <<>>, 0, "", 0, Len(server.docs))>>
             ELSE <<Ev("GET", SearchUrl, 0, a.err, 0, 0),
                    Ev("search_error", <<>>, 0, a.err, 0, 0)>>)
  /\ mpc' = "submit"
  /\ nsub' = 1
  /\ pc' = [i \in 1..Len(items') |-> "new"]
  /\ files' = [i \in 1..Len(items') |-> <<>>]
  /\ fidx' = [i \in 1..Len(items') |-> 0]
  /\ attempt' = [i \in 1..Len(items') |-> 0]
  /\ pos' = [i \in 1..Len(items') |-> 0]
  /\ trace' = [i \in 1..Len(items') |-> <<>>]
  /\ mcalls' = [i \in 1..Len(items') |-> <<>>]
  /\ UNCHANGED <<keyword, max_retries, mret, server, ratio, disk, queue, nthreads, idle_sem, mt>>

\* search_items: one GET; any exception gives []
Search ==
  /\ mpc = "search"
  /\ \E a \in server.search :
       /\ items' = IF a.ok THEN server.docs ELSE <<>>
       /\ mlog' = mlog \o <<Ev("searching", SearchUrl, 0, "", 0, 0)>> \o
            (IF a.ok
             THEN <<Ev("GET", SearchUrl, OK200, "", 0, 0),
                    Ev("found", <<>>, 0, "", 0, Len(server.docs))>>
             ELSE <<Ev("GET", SearchUrl, 0, a.err, 0, 0),
                    Ev("search_error", <<>>, 0, a.err, 0, 0)>>)
  /\ mpc' = "submit"
  /\ nsub' = 1
  /\ pc' = [i \in 1..Len(items') |-> "new"]
  /\ files' = [i \in 1..Len(items') |-> <<>>]
  /\ fidx' = [i \in 1..Len(items') |-> 0]
  /\ attempt' = [i \in 1..Len(items') |-> 0]
  /\ pos' = [i \in 1..Len(items') |-> 0]
  /\ trace' = [i \in 1..Len(items') |-> <<>>]
  /\ mcalls' = [i \in 1..Len(items') |-> <<>>]
  /\ UNCHANGED <<keyword, max_retries, mret, server, ratio, disk, queue, nthreads, idle_sem, mt>>

\* one turn of main's loop: executor.submit(download_torrent, identifier, keyword)
Submit ==
  /\ mpc = "submit"
  /\ nsub <= Len(items)
  /\ queue' = Append(queue, nsub)
  /\ pc' = [pc EXCEPT ![nsub] = "queued"]
  /\ IF idle_sem > 0
     THEN idle_sem' = idle_sem - 1 /\ UNCHANGED nthreads
     ELSE /\ nthreads' = IF SpawnNeeded THEN nthreads + 1 ELSE nthreads
          /\ UNCHANGED idle_sem
  /\ nsub' = nsub + 1
  /\ UNCHANGED <<keyword, max_retries, mcalls, mret, server, ratio, disk, mpc, mlog, items,
                 files, fidx, attempt, pos, trace, mt>>

\* a plausible slip: the executor is shut down with wait=False
DrainedNoWait == TRUE

\* what the executor's __exit__ waits for: shutdown(wait=True)
Drained == AllDone

RECURSIVE OutcomesUpTo(_)
\* the outcome lines of the items 1..n, item by item in submission order
OutcomesUpTo(n) ==
  IF n = 0 THEN <<>>
  ELSE OutcomesUpTo(n - 1) \o
         SelectSeq(trace[n],
                   LAMBDA e : e.msg \in {"exists_skip", "downloaded", "failed_after"})

\* a plausible variant: main collects the outcomes and returns them as a list
MainReturnsOutcomes ==
  /\ mpc = "submit"
  /\ nsub > Len(items)
  /\ Drained
  /\ mpc' = "done"
  /\ mret' = [type |-> "list", val |-> OutcomesUpTo(Len(items))]
  /\ UNCHANGED <<keyword, max_retries, mcalls, server, ratio, disk, mlog, items, nsub, queue,
                 nthreads, idle_sem, pc, files, fidx, attempt, pos, trace, mt>>

\* the end of main: the loop is over and the executor's with block is left
MainReturn ==
  /\ mpc = "submit"
  /\ nsub > Len(items)
  /\ Drained
  /\ mpc' = "done"
  /\ mret' = PyNone
  /\ UNCHANGED <<keyword, max_retries, mcalls, server, ratio, disk, mlog, items, nsub, queue,
                 nthreads, idle_sem, pc, files, fidx, attempt, pos, trace, mt>>

\* -------------------------------------------------------- download_torrent
\* a worker thread takes the next work item and starts download_torrent: the
\* metadata request is under way
Take(i) ==
  /\ queue # <<>>
  /\ Head(queue) = i
  /\ Cardinality(Running) < nthreads
  /\ queue' = Tail(queue)
  /\ pc' = [pc EXCEPT ![i] = "meta"]
  /\ trace' = [trace EXCEPT ![i] =
       <<Ev("fetching_metadata", MetadataUrl(items[i]), 0, "", 0, 0)>>]
  /\ UNCHANGED <<keyword, max_retries, mcalls, mret, server, ratio, disk, mpc, mlog, items, nsub,
                 nthreads, idle_sem, files, fidx, attempt, pos, mt>>

\* the thread's work item is over: the worker reports itself idle
Finish(i, tr) ==
  /\ pc' = [pc EXCEPT ![i] = "done"]
  /\ trace' = [trace EXCEPT ![i] = tr]
  /\ idle_sem' = idle_sem + 1

\* a plausible slip: the loop over the files is left at the first failed download
NextFileStopOnFail(i, tr) ==
  /\ fidx' = [fidx EXCEPT ![i] = @ + 1]
  /\ IF fidx[i] + 1 > Len(files[i]) \/ tr[Len(tr)].msg = "failed_after"
     THEN Finish(i, tr)
     ELSE /\ pc' = [pc EXCEPT ![i] = "check"]
          /\ trace' = [trace EXCEPT ![i] = tr]
          /\ UNCHANGED idle_sem

\* download_file returned with trace tr: the for loop of download_torrent goes on
NextFile(i, tr) ==
  /\ fidx' = [fidx EXCEPT ![i] = @ + 1]
  /\ IF fidx[i] + 1 > Len(files[i])
     THEN Finish(i, tr)
     ELSE /\ pc' = [pc EXCEPT ![i] = "check"]
          /\ trace' = [trace EXCEPT ![i] = tr]
          /\ UNCHANGED idle_sem

\* a plausible slip: metadata['files'] is read without the test of line 101, so a
\* document without the key raises KeyError into the handler of line 114
MetaKeyError(i) ==
  /\ pc[i] = "meta"
  /\ \E a \in server.metadata[items[i]] :
       LET url == MetadataUrl(items[i])
           ok == a.ok
           e == a.err
           doc == server.meta[items[i]]
           tf == TorrentFiles(doc.files)
       IN /\ mcalls' = [mcalls EXCEPT ![i] =
               IF ok /\ doc.has_files THEN MatcherCalls(doc.files) ELSE @]
          /\ IF ~ok
             THEN /\ Finish(i, trace[i] \o <<Ev("GET", url, 0, e, 0, 0),
                                            Ev("metadata_error", items[i], 0, e, 0, 0)>>)
                  /\ UNCHANGED <<files, fidx>>
             ELSE IF ~doc.has_files
             THEN /\ Finish(i, trace[i] \o <<Ev("GET", url, OK200, "", 0, 0),
                                            Ev("metadata_error", items[i], 0, "KeyError", 0, 0)>>)
                  /\ UNCHANGED <<files, fidx>>
             ELSE /\ files' = [files EXCEPT ![i] = tf]
                  /\ IF tf = <<>>
                     THEN /\ Finish(i, trace[i] \o <<Ev("GET", url, OK200, "", 0, 0),
                                                    Ev("no_match", items[i], 0, "", 0, 0)>>)
                          /\ UNCHANGED fidx
                     ELSE /\ fidx' = [fidx EXCEPT ![i] = 1]
                          /\ pc' = [pc EXCEPT ![i] = "check"]
                          /\ trace' = [trace EXCEPT ![i] =
                               @ \o <<Ev("GET", url, OK200, "", 0, 0)>>]
                          /\ UNCHANGED idle_sem
  /\ UNCHANGED <<keyword, max_retries, mret, server, ratio, disk, mpc, mlog, items, nsub,
                 queue, nthreads, attempt, pos, mt>>

\* a plausible slip: a failed metadata request is made again, like a download
MetaRetried(i) ==
  /\ pc[i] = "meta"
  /\ \E a \in server.metadata[items[i]] :
       LET url == MetadataUrl(items[i])
           ok == a.ok
           e == a.err
           doc == server.meta[items[i]]
           tf == TorrentFiles(doc.files)
       IN /\ mcalls' = [mcalls EXCEPT ![i] =
               IF ok /\ doc.has_files THEN MatcherCalls(doc.files) ELSE @]
          /\ IF ~ok
             THEN /\ trace' = [trace EXCEPT ![i] = Append(@, Ev("GET", url, 0, e, 0, 0))]
                  /\ UNCHANGED <<files, fidx, pc, idle_sem>>
             ELSE IF ~doc.has_files
             THEN /\ Finish(i, trace[i] \o <<Ev("GET", url, OK200, "", 0, 0),
                                            Ev("no_files", items[i], 0, "", 0, 0)>>)
                  /\ UNCHANGED <<files, fidx>>
             ELSE /\ files' = [files EXCEPT ![i] = tf]
                  /\ IF tf = <<>>
                     THEN /\ Finish(i, trace[i] \o <<Ev("GET", url, OK200, "", 0, 0),
                                                    Ev("no_match", items[i], 0, "", 0, 0)>>)
                          /\ UNCHANGED fidx
                     ELSE /\ fidx' = [fidx EXCEPT ![i] = 1]
                          /\ pc' = [pc EXCEPT ![i] = "check"]
                          /\ trace' = [trace EXCEPT ![i] =
                               @ \o <<Ev("GET", url, OK200, "", 0, 0)>>]
                          /\ UNCHANGED idle_sem
  /\ UNCHANGED <<keyword, max_retries, mret, server, ratio, disk, mpc, mlog, items, nsub,
                 queue, nthreads, attempt, pos, mt>>

\* the metadata response: an exception, a document without files, or the files
Meta(i) ==
  /\ pc[i] = "meta"
  /\ \E a \in server.metadata[items[i]] :
       LET url == MetadataUrl(items[i])
           ok == a.ok
           e == a.err
           doc == server.meta[items[i]]
           tf == TorrentFiles(doc.files)
       IN /\ mcalls' = [mcalls EXCEPT ![i] =
               IF ok /\ doc.has_files THEN MatcherCalls(doc.files) ELSE @]
          /\ IF ~ok
             THEN /\ Finish(i, trace[i] \o <<Ev("GET", url, 0, e, 0, 0),
                                            Ev("metadata_error", items[i], 0, e, 0, 0)>>)
                  /\ UNCHANGED <<files, fidx>>
             ELSE IF ~doc.has_files
             THEN /\ Finish(i, trace[i] \o <<Ev("GET", url, OK200, "", 0, 0),
                                            Ev("no_files", items[i], 0, "", 0, 0)>>)
                  /\ UNCHANGED <<files, fidx>>
             ELSE /\ files' = [files EXCEPT ![i] = tf]
                  /\ IF tf = <<>>
                     THEN /\ Finish(i, trace[i] \o <<Ev("GET", url, OK200, "", 0, 0),
                                                    Ev("no_match", items[i], 0, "", 0, 0)>>)
                          /\ UNCHANGED fidx
                     ELSE /\ fidx' = [fidx EXCEPT ![i] = 1]
                          /\ pc' = [pc EXCEPT ![i] = "check"]
                          /\ trace' = [trace EXCEPT ![i] =
                               @ \o <<Ev("GET", url, OK200, "", 0, 0)>>]
                          /\ UNCHANGED idle_sem
  /\ UNCHANGED <<keyword, max_retries, mret, server, ratio, disk, mpc, mlog, items, nsub,
                 queue, nthreads, attempt, pos, mt>>

\* ------------------------------------------------------------ download_file
\* the url download_torrent passes for the file item i is at
Url(i) == TorrentUrl(items[i], files[i][fidx[i]])

\* open(filename, 'wb'): the file exists and is empty
Truncated(d, filename) ==
  [f \in DOMAIN d \cup {filename} |-> IF f = filename THEN <<>> ELSE d[f]]

\* file.write(chunk) at the handle's offset p; a gap left by another handle's
\* truncation reads as holes
WriteAt(data, p, chunk) ==
  [k \in 1..(IF Len(data) > p + 1 THEN Len(data) ELSE p + 1) |->
     IF k = p + 1 THEN chunk
     ELSE IF k <= Len(data) THEN data[k] ELSE "hole"]

\* a plausible slip: the bare file name is looked up, not the joined path
ExistsBareName(d, filename) == LastSegment(filename) \in DOMAIN d

\* os.path.exists(filename)
Exists(d, filename) == filename \in DOMAIN d

\* lines 41-44, and the loop's entry: with no attempt to make, lines 64-65
Check(i) ==
  /\ pc[i] = "check"
  /\ LET filename == Filename(Url(i), download_dir)
     IN IF Exists(disk, filename)
        THEN /\ NextFile(i, Append(trace[i], Ev("exists_skip", filename, 0, "", 0, 0)))
             /\ UNCHANGED attempt
        ELSE /\ attempt' = [attempt EXCEPT ![i] = 0]
             /\ IF max_retries > 0
                THEN /\ pc' = [pc EXCEPT ![i] = "fetch"]
                     /\ UNCHANGED <<fidx, trace, idle_sem>>
                ELSE NextFile(i, Append(trace[i],
                       Ev("failed_after", Url(i), 0, "", 0, max_retries)))
  /\ UNCHANGED <<keyword, max_retries, mcalls, mret, server, ratio, disk, mpc, mlog, items, nsub,
                 queue, nthreads, files, pos, mt>>

\* a plausible slip: the loop gives up one attempt early
AfterFailEarly(i, tr) ==
  LET tr2 == Append(tr, Ev("retrying", <<>>, 0, "", attempt[i] + 1, max_retries))
  IN /\ attempt' = [attempt EXCEPT ![i] = @ + 1]
     /\ IF attempt[i] + 2 < max_retries
        THEN /\ pc' = [pc EXCEPT ![i] = "fetch"]
             /\ trace' = [trace EXCEPT ![i] = tr2]
             /\ UNCHANGED <<fidx, idle_sem>>
        ELSE NextFile(i, Append(tr2, Ev("failed_after", Url(i), 0, "", 0, max_retries)))

\* a plausible slip: the last failure is raised, not logged, and download_torrent's
\* handler ends the identifier's work with its other files untried
AfterFailAbort(i, tr) ==
  LET tr2 == Append(tr, Ev("retrying", <<>>, 0, "", attempt[i] + 1, max_retries))
  IN /\ attempt' = [attempt EXCEPT ![i] = @ + 1]
     /\ IF attempt[i] + 1 < max_retries
        THEN /\ pc' = [pc EXCEPT ![i] = "fetch"]
             /\ trace' = [trace EXCEPT ![i] = tr2]
             /\ UNCHANGED <<fidx, idle_sem>>
        ELSE /\ Finish(i, Append(tr2, Ev("failed_after", Url(i), 0, "", 0, max_retries)))
             /\ UNCHANGED fidx

\* a plausible slip: a retry loop that never counts its attempts
AfterFailNoCount(i, tr) ==
  /\ UNCHANGED <<attempt, fidx, idle_sem>>
  /\ pc' = [pc EXCEPT ![i] = "fetch"]
  /\ trace' = [trace EXCEPT ![i] =
       Append(tr, Ev("retrying", <<>>, 0, "", attempt[i] + 1, max_retries))]

\* a failed attempt, its error line logged in tr: line 62, the next turn of the
\* loop or, after the last one, lines 64-65
AfterFail(i, tr) ==
  LET tr2 == Append(tr, Ev("retrying", <<>>, 0, "", attempt[i] + 1, max_retries))
  IN /\ attempt' = [attempt EXCEPT ![i] = @ + 1]
     /\ IF attempt[i] + 1 < max_retries
        THEN /\ pc' = [pc EXCEPT ![i] = "fetch"]
             /\ trace' = [trace EXCEPT ![i] = tr2]
             /\ UNCHANGED <<fidx, idle_sem>>
        ELSE NextFile(i, Append(tr2, Ev("failed_after", Url(i), 0, "", 0, max_retries)))

\* a plausible slip: the status is not looked at, any response opens the file
IsSuccessAnyStatus(code) == code # 0

\* a plausible variant: any 2xx status opens the file
IsSuccess2xx(code) == code \in 200..299

\* the status that opens the file
IsSuccess(code) == code = OK200

\* lines 48-50 and 56-61: the request and its answer: an exception, a status
\* that is logged, or the status that opens the file
Fetch(i) ==
  /\ pc[i] = "fetch"
  /\ \E a \in server.download :
       LET get == Ev("GET", Url(i), a.code, a.err, 0, 0)
       IN IF a.code = 0
          THEN /\ AfterFail(i, trace[i] \o <<get, Ev("exception", Url(i), 0, a.err, 0, 0)>>)
               /\ UNCHANGED <<disk, pos>>
          ELSE IF IsSuccess(a.code)
          THEN /\ disk' = Truncated(disk, Filename(Url(i), download_dir))
               /\ pos' = [pos EXCEPT ![i] = 0]
               /\ pc' = [pc EXCEPT ![i] = "stream"]
               /\ trace' = [trace EXCEPT ![i] = Append(@, get)]
               /\ UNCHANGED <<fidx, attempt, idle_sem>>
          ELSE /\ AfterFail(i, trace[i] \o
                    <<get, Ev("status_error", Url(i), a.code, "", 0, 0)>>)
               /\ UNCHANGED <<disk, pos>>
  /\ UNCHANGED <<keyword, max_retries, mcalls, mret, server, ratio, mpc, mlog, items, nsub, queue,
                 nthreads, files, mt>>

\* a plausible slip: no return after line 54, so the retry loop goes on
StreamNoReturn(i) ==
  /\ pc[i] = "stream"
  /\ LET filename == Filename(Url(i), download_dir)
     IN \/ \E chunk \in server.chunks :
             /\ pos[i] < server.body_max
             /\ disk' = [disk EXCEPT ![filename] = WriteAt(@, pos[i], chunk)]
             /\ pos' = [pos EXCEPT ![i] = @ + 1]
             /\ UNCHANGED <<pc, fidx, attempt, trace, idle_sem>>
        \/ /\ AfterFail(i, Append(trace[i], Ev("downloaded", filename, 0, "", 0, 0)))
           /\ UNCHANGED <<disk, pos>>
        \/ \E e \in server.stream_errs :
             /\ AfterFail(i, Append(trace[i], Ev("exception", Url(i), 0, e, 0, 0)))
             /\ UNCHANGED <<disk, pos>>
  /\ UNCHANGED <<keyword, max_retries, mcalls, mret, server, ratio, mpc, mlog, items, nsub, queue,
                 nthreads, files, mt>>

\* lines 51-55 and 59-61: one turn of the chunk loop: a chunk is written, the body
\* ends and the call returns, or the stream raises
Stream(i) ==
  /\ pc[i] = "stream"
  /\ LET filename == Filename(Url(i), download_dir)
     IN \/ \E chunk \in server.chunks :
             /\ pos[i] < server.body_max
             /\ disk' = [disk EXCEPT ![filename] = WriteAt(@, pos[i], chunk)]
             /\ pos' = [pos EXCEPT ![i] = @ + 1]
             /\ UNCHANGED <<pc, fidx, attempt, trace, idle_sem>>
        \/ /\ NextFile(i, Append(trace[i], Ev("downloaded", filename, 0, "", 0, 0)))
           /\ UNCHANGED <<disk, pos, attempt>>
        \/ \E e \in server.stream_errs :
             /\ AfterFail(i, Append(trace[i], Ev("exception", Url(i), 0, e, 0, 0)))
             /\ UNCHANGED <<disk, pos>>
  /\ UNCHANGED <<keyword, max_retries, mcalls, mret, server, ratio, mpc, mlog, items, nsub, queue,
                 nthreads, files, mt>>

Next ==
  \/ Search
  \/ Submit
  \/ MainReturn
  \/ \E i \in 1..Len(items) : Take(i)
  \/ \E i \in 1..Len(items) : Meta(i)
  \/ \E i \in 1..Len(items) : Check(i)
  \/ \E i \in 1..Len(items) : Fetch(i)
  \/ \E i \in 1..Len(items) : Stream(i)

\* ----------------------------------------------------------------- inputs
IdentTok == <<"i1", "i2", "i3", "i4", "i5", "i6", "i7", "i8">>
Ident(k) == <<IdentTok[k]>>

NameA == <<"A", ".", "torrent">>
NameB == <<"b", ".", "torrent">>
NameSubA == <<"d", "/", "A", ".", "torrent">>
NameTxt == <<"b", ".", "txt">>

PathA == PathJoin(download_dir, NameA)

\* a metadata document
Doc(has_files, doc_files) == [has_files |-> has_files, files |-> doc_files]

Answer(ok, err) == [ok |-> ok, err |-> err]
Reply(code, err) == [code |-> code, err |-> err]

\* every way a JSON endpoint may answer / only its success
AnyAnswer == {Answer(TRUE, ""), Answer(FALSE, "Timeout"), Answer(FALSE, "HTTPError")}
\* every way the download endpoint may answer
AnyReply == {Reply(OK200, ""), Reply(204, ""), Reply(404, ""), Reply(0, "Timeout")}

MtIdle == [text |-> <<>>, kw |-> <<>>, threshold |-> 0, result |-> FALSE, called |-> FALSE]

\* the pairs partial_ratio is asked about in a run with keyword kw against srv
RatioPairs(kw, srv) ==
  IF ~Truthy(kw) THEN {}
  ELSE {<<term, Lower(name)>> :
          term \in SeqToSet(Split(Lower(kw[1]))),
          name \in {f \in UNION {SeqToSet(srv.meta[id].files) : id \in DOMAIN srv.meta} :
                      IsTorrent(f)}}

\* the scores partial_ratio may give: both sides of the default threshold, and the
\* ends of its range
Scores == {0, 69, 70, 100}
RunScores == {69, 70}

\* the state main(query, num_items, kw) starts in
Start(kw, retries, srv, d) ==
  /\ keyword = kw
  /\ max_retries = retries
  /\ server = srv
  /\ ratio \in [RatioPairs(kw, srv) -> RunScores]
  /\ disk = d
  /\ mpc = "search"
  /\ mlog = <<>>
  /\ items = <<>>
  /\ nsub = 1
  /\ queue = <<>>
  /\ nthreads = 0
  /\ idle_sem = 0
  /\ pc = <<>>
  /\ files = <<>>
  /\ fidx = <<>>
  /\ attempt = <<>>
  /\ pos = <<>>
  /\ trace = <<>>
  /\ mcalls = <<>>
  /\ mret = NotReturned
  /\ mt = MtIdle

NoDisk == [f \in {} |-> <<>>]
OldDisk == [f \in {PathA} |-> <<"old">>]

\* One identifier whose files name the same url once or twice, any retry count, the
\* destination file there or not: download_file called once, or twice in sequence.
InitCall ==
  \E retries \in 0..MaxRetries, d \in {NoDisk, OldDisk},
     fs \in {<<NameA>>, <<NameSubA>>, <<NameA, NameA>>} :
    Start(<<>>, retries,
          [docs |-> <<Ident(1)>>,
           meta |-> [id \in {Ident(1)} |-> Doc(TRUE, fs)],
           search |-> AnyAnswer, metadata |-> [id \in {Ident(1)} |-> AnyAnswer],
           download |-> AnyReply, chunks |-> {"x"}, body_max |-> MaxChunks,
           stream_errs |-> {"ChunkedEncodingError"}],
          d)

SpecCall == InitCall /\ [][Next]_vars

\* Scheduling: threads keep running and every request returns (timeout=10), so
\* while some thread has a step to take, a step is taken.
Fairness == WF_vars(Next)

\* One identifier with one file: a single download_file call.
InitRetry ==
  \E retries \in 0..MaxRetries, d \in {NoDisk, OldDisk}, fs \in {<<NameA>>, <<NameSubA>>} :
    Start(<<>>, retries,
          [docs |-> <<Ident(1)>>,
           meta |-> [id \in {Ident(1)} |-> Doc(TRUE, fs)],
           search |-> AnyAnswer, metadata |-> [id \in {Ident(1)} |-> AnyAnswer],
           download |-> AnyReply, chunks |-> {"x"}, body_max |-> MaxChunks,
           stream_errs |-> {"ChunkedEncodingError"}],
          d)

SpecRetryFair == InitRetry /\ [][Next]_vars /\ Fairness

\* the first n identifiers, as the docs of a search response
FirstDocs(n) == [k \in 1..n |-> Ident(k)]

\* The pool: MaxItems identifiers, more than the pool's workers.  The first has two
\* files and the second one, and their requests may fail; the third has a document
\* without files, the fourth's metadata request fails, the others have no torrent
\* file, and the fifth's request may fail too.  One attempt per file, bodies of one chunk, no stream breaks off.
PoolMeta(id) ==
  CASE id = Ident(1) -> Doc(TRUE, <<NameA, NameB>>)
    [] id = Ident(2) -> Doc(TRUE, <<NameSubA>>)
    [] id = Ident(3) -> Doc(FALSE, <<>>)
    [] OTHER -> Doc(TRUE, <<NameTxt>>)

PoolAnswers(id) ==
  CASE id \in {Ident(1), Ident(2), Ident(5)} -> {Answer(TRUE, ""), Answer(FALSE, "Timeout")}
    [] id = Ident(4) -> {Answer(FALSE, "Timeout")}
    [] OTHER -> {Answer(TRUE, "")}

InitPool ==
  Start(<<>>, 1,
        [docs |-> FirstDocs(MaxItems),
         meta |-> [id \in SeqToSet(FirstDocs(MaxItems)) |-> PoolMeta(id)],
         search |-> {Answer(TRUE, ""), Answer(FALSE, "Timeout")},
         metadata |-> [id \in SeqToSet(FirstDocs(MaxItems)) |-> PoolAnswers(id)],
         download |-> {Reply(OK200, ""), Reply(404, "")},
         chunks |-> {"x"}, body_max |-> 1, stream_errs |-> {}],
        NoDisk)

SpecPool == InitPool /\ [][Next]_vars

SpecPoolFair == SpecPool /\ Fairness

\* Two work items for one identifier (the search listed it twice), so for one url;
\* the destination is absent at the start.
InitRace ==
  \E retries \in 1..2 :
    Start(<<>>, retries,
          [docs |-> <<Ident(1), Ident(1)>>,
           meta |-> [id \in {Ident(1)} |-> Doc(TRUE, <<NameA>>)],
           search |-> AnyAnswer, metadata |-> [id \in {Ident(1)} |-> AnyAnswer],
           download |-> AnyReply, chunks |-> {"x", "y"}, body_max |-> MaxChunks,
           stream_errs |-> {"ChunkedEncodingError"}],
          NoDisk)

SpecRace == InitRace /\ [][Next]_vars

\* the keywords main is given: None, "", " ", "a", "a B"
RunKeywords == {<<>>, << <<>> >>, << <<" ">> >>, << <<"a">> >>, << <<"a", " ", "B">> >>}

\* One identifier with two torrent files and another file, a keyword or none, any
\* scores around the threshold.
InitFilter ==
  \E kw \in RunKeywords :
    Start(kw, 2,
          [docs |-> <<Ident(1)>>,
           meta |-> [id \in {Ident(1)} |-> Doc(TRUE, <<NameA, NameTxt, NameB>>)],
           search |-> AnyAnswer, metadata |-> [id \in {Ident(1)} |-> AnyAnswer],
           download |-> {Reply(OK200, ""), Reply(404, "")},
           chunks |-> {"x"}, body_max |-> 1, stream_errs |-> {"ChunkedEncodingError"}],
          NoDisk)

SpecFilter == InitFilter /\ [][Next]_vars

\* the second identifier's files in an end-to-end run: a name the first identifier
\* has too, or one of its own
RunFiles2 == {<<NameA>>, <<NameB>>}

\* An end-to-end run from an empty directory: the search finds no, one or two
\* identifiers; the first has a torrent file and another file, the second one
\* torrent file; zero to two attempts per file, bodies of at most one chunk.
InitRun ==
  \E retries \in 0..2, n \in 0..2, fs2 \in RunFiles2 :
    Start(<<>>, retries,
          [docs |-> FirstDocs(n),
           meta |-> [id \in {Ident(1), Ident(2)} |->
                       IF id = Ident(1) THEN Doc(TRUE, <<NameA, NameTxt>>)
                       ELSE Doc(TRUE, fs2)],
           search |-> AnyAnswer,
           metadata |-> [id \in {Ident(1), Ident(2)} |-> AnyAnswer],
           download |-> {Reply(OK200, ""), Reply(404, "")},
           chunks |-> {"x"}, body_max |-> 1, stream_errs |-> {"ChunkedEncodingError"}],
          NoDisk)

SpecRun == InitRun /\ [][Next]_vars

\* ------------------------------------------------------ match_terms alone
MatchTexts == {NameA, NameB}
MatchKeywords ==
  {<<>>, <<" ">>, <<"a">>, <<"A">>, <<"a", " ", "B">>, <<" ", "a", " ", " ", "b", " ">>,
   <<"a", " ", "a">>}
Thresholds == {0, 69, 70, 71, 101}

\* no run: only match_terms is called
InitMatch ==
  /\ \E text \in MatchTexts, kw \in MatchKeywords, threshold \in Thresholds :
       /\ mt = [text |-> text, kw |-> kw, threshold |-> threshold,
                result |-> FALSE, called |-> FALSE]
       /\ ratio \in [{<<term, Lower(text)>> : term \in SeqToSet(Split(Lower(kw)))}
                       -> Scores]
  /\ keyword = <<>>
  /\ max_retries = 0
  /\ server = [docs |-> <<>>]
  /\ disk = NoDisk
  /\ mpc = "done"
  /\ mlog = <<>>
  /\ items = <<>>
  /\ nsub = 1
  /\ queue = <<>>
  /\ nthreads = 0
  /\ idle_sem = 0
  /\ pc = <<>>
  /\ files = <<>>
  /\ fidx = <<>>
  /\ attempt = <<>>
  /\ pos = <<>>
  /\ trace = <<>>
  /\ mcalls = <<>>
  /\ mret = NotReturned

\* match_terms(text, keyword, threshold) is called and returns
MatchCall ==
  /\ ~mt.called
  /\ mt' = [mt EXCEPT !.result = match_terms(mt.text, mt.kw, mt.threshold),
                      !.called = TRUE]
  /\ UNCHANGED <<progvars, ratio>>

SpecMatch == InitMatch /\ [][MatchCall]_vars

\* ------------------------------------------------------- reading a trace
\* the lines that end a download_file call: lines 42, 53 and 64
Terminal(e) == e.msg \in {"exists_skip", "downloaded", "failed_after"}

IsGet(e) == e.msg = "GET"

\* the outcomes of the download_file calls thread i has finished, in order
Outcomes(i) == SelectSeq(trace[i], Terminal)

\* download_file calls thread i has finished
Returned(i) == Len(Outcomes(i))

\* the position in tr of its k-th terminal line; 0 for k = 0
RECURSIVE EndOf(_, _, _)
EndOf(tr, k, from) ==
  IF k = 0 THEN 0
  ELSE IF Terminal(tr[from])
       THEN (IF k = 1 THEN from ELSE EndOf(tr, k - 1, from + 1))
       ELSE EndOf(tr, k, from + 1)

\* what thread i's k-th download_file call put in the trace, its terminal line
\* included when it has returned; the first call's part starts after the metadata
\* request and its answer
CallPart(i, k) ==
  LET tr == trace[i]
      first == IF k = 1 THEN 3 ELSE EndOf(tr, k - 1, 1) + 1
      last == IF k <= Returned(i) THEN EndOf(tr, k, 1) ELSE Len(tr)
  IN SubSeq(tr, first, last)

\* the requests of a part of a trace
Gets(part) == SelectSeq(part, IsGet)

\* thread i moves in this step
Moved(i) ==
  <<pc[i], fidx[i], attempt[i], pos[i], trace[i]>>
    # <<pc'[i], fidx'[i], attempt'[i], pos'[i], trace'[i]>>

InCall(i) == pc[i] \in {"check", "fetch", "stream"}

Dest(i) == Filename(Url(i), download_dir)

\* ------------------------------------------------------------------ claims
\* C1 (skip-if-present): a download_file call that finds a file at its destination
\* path is one step that logs the skip line, requests nothing and leaves the whole
\* disk as it was, whatever the url and the retry count.
C1_SkipIfPresent ==
  [][\A i \in 1..Len(items) :
       (pc[i] = "check" /\ Moved(i) /\ Dest(i) \in DOMAIN disk) =>
         /\ trace'[i] = Append(trace[i], Ev("exists_skip", Dest(i), 0, "", 0, 0))
         /\ fidx'[i] = fidx[i] + 1
         /\ disk' = disk]_vars

\* a call was skipped although a retry count of 0 or more was configured, and the
\* old content is still there
C1_Witness ==
  \E i \in 1..Len(items) :
    /\ Returned(i) = 1
    /\ Outcomes(i)[1].msg = "exists_skip"
    /\ Gets(CallPart(i, 1)) = <<>>
    /\ disk[PathA] = <<"old">>

\* thread i's k-th download_file call left a file at its destination: it was
\* skipped, it succeeded, or one of its attempts was answered 200 and opened it
LeftFile(i, k) ==
  \/ Outcomes(i)[k].msg \in {"exists_skip", "downloaded"}
  \/ \E j \in 1..Len(CallPart(i, k)) :
       IsGet(CallPart(i, k)[j]) /\ CallPart(i, k)[j].code = OK200

Last(s) == s[Len(s)]

\* thread i is about to start a download_file call for the url of its previous one
SecondRun(i) ==
  /\ pc[i] = "check"
  /\ Moved(i)
  /\ fidx[i] >= 2
  /\ files[i][fidx[i]] = files[i][fidx[i] - 1]

\* C2 as stated (idempotent re-run): with at least one attempt allowed, a second
\* download_file call for a url is always skipped and leaves the disk as it was,
\* whatever the first call's fetches gave.
C2_Original ==
  [][\A i \in 1..Len(items) :
       (InCall(i) /\ Moved(i) /\ fidx[i] >= 2 /\ max_retries >= 1
          /\ files[i][fidx[i]] = files[i][fidx[i] - 1]) =>
         /\ disk' = disk
         /\ Returned(i)' > Returned(i) => Last(trace'[i]).msg = "exists_skip"]_vars

\* C2 as amended: the second of two download_file calls in sequence for one url is
\* skipped, with no request and the disk unchanged, exactly when the first call left
\* a file (skipped, succeeded, or an attempt answered 200); after a first call that
\* left none, the second is not skipped.
C2_Idempotent ==
  [][\A i \in 1..Len(items) :
       SecondRun(i) =>
         IF LeftFile(i, fidx[i] - 1)
         THEN /\ trace'[i] = Append(trace[i], Ev("exists_skip", Dest(i), 0, "", 0, 0))
              /\ fidx'[i] = fidx[i] + 1
              /\ disk' = disk
         ELSE Last(trace'[i]).msg # "exists_skip"]_vars

\* the first call downloaded the file and the second, for the same url, skipped it
C2_Witness ==
  \E i \in 1..Len(items) :
    /\ files[i] = <<NameA, NameA>>
    /\ Returned(i) = 2
    /\ Outcomes(i)[1].msg = "downloaded"
    /\ Outcomes(i)[2].msg = "exists_skip"
    /\ disk[PathA] = <<"x", "x">>

\* the error lines of a part of a trace: lines 57 and 60
IsError(e) == e.msg \in {"status_error", "exception"}

\* the calls of thread i that ended in line 64 although an attempt was allowed
FailedCalls(i) ==
  {k \in 1..Returned(i) : Outcomes(i)[k].msg = "failed_after" /\ max_retries >= 1}

\* C3 as stated (retry exhaustion): a call that ends Failed made exactly max_retries
\* requests, and its Failed line carries the error of the last attempt.
C3_Original ==
  \A i \in 1..Len(items) : \A k \in FailedCalls(i) :
    LET part == CallPart(i, k)
        errors == SelectSeq(part, IsError)
    IN /\ Len(Gets(part)) = max_retries
       /\ Last(part).code = Last(errors).code
       /\ Last(part).err = Last(errors).err

\* C3 as amended: a call ends Failed after exactly max_retries requests, none
\* fewer (a call still in its loop has made fewer than max_retries failed
\* attempts); its Failed line carries the url and the retry count, and the error of
\* the last attempt is carried by that attempt's own error line, two lines before.
C3_Exhaustion ==
  \A i \in 1..Len(items) :
    /\ \A k \in FailedCalls(i) :
         LET part == CallPart(i, k)
             n == Len(part)
         IN /\ Len(Gets(part)) = max_retries
            /\ Len(SelectSeq(part, IsError)) = max_retries
            /\ part[n] = Ev("failed_after", TorrentUrl(items[i], files[i][k]),
                            0, "", 0, max_retries)
            /\ part[n - 1] = Ev("retrying", <<>>, 0, "", max_retries, max_retries)
            /\ IsError(part[n - 2])
    /\ pc[i] = "fetch" =>
         /\ attempt[i] < max_retries
         /\ Len(SelectSeq(CallPart(i, fidx[i]), IsError)) = attempt[i]

\* a call made MaxRetries attempts, the last answered 404, and ended Failed
C3_Witness ==
  \E i \in 1..Len(items) :
    /\ max_retries = MaxRetries
    /\ 1 \in FailedCalls(i)
    /\ Len(Gets(CallPart(i, 1))) = MaxRetries
    /\ Last(Gets(CallPart(i, 1))).code = 404

\* the attempts download_file may still make in thread i's current call
remainingAttempts(i) == max_retries - attempt[i]

\* thread i logs an error line for a failed attempt in this step
AttemptFails(i) ==
  /\ Len(SelectSeq(trace'[i], IsError)) > Len(SelectSeq(trace[i], IsError))
  /\ pc[i] \in {"fetch", "stream"}

\* C4 (bounded retries and termination): each failed attempt lowers the attempts
\* still allowed by one, never below zero; no call makes more than max_retries
\* requests; and every call that started returns, each request returning.
C4_BoundedRetries ==
  /\ [](\A i \in 1..Len(items) :
          /\ \A k \in 1..Returned(i) : Len(Gets(CallPart(i, k))) <= max_retries
          /\ InCall(i) =>
               /\ Len(Gets(CallPart(i, fidx[i]))) <= max_retries
               /\ remainingAttempts(i) >= 0)
  /\ [][\A i \in 1..Len(items) :
          AttemptFails(i) =>
            /\ remainingAttempts(i)' = remainingAttempts(i) - 1
            /\ remainingAttempts(i) > 0]_vars
  /\ <>[](\A i \in 1..Len(items) : ~InCall(i) /\ Returned(i) = Len(files[i]))

\* a call used up all its attempts: none is left after MaxRetries failures
C4_Witness ==
  \E i \in 1..Len(items) :
    /\ max_retries = MaxRetries
    /\ Returned(i) = 1
    /\ Outcomes(i)[1].msg = "failed_after"
    /\ remainingAttempts(i) = 0

\* a failed attempt in a part of a trace: a request, then its error line (at once
\* for an exception or a logged status, after the 200 for a broken stream)
FailedAt(part, j) ==
  /\ IsGet(part[j])
  /\ j + 2 <= Len(part)
  /\ IsError(part[j + 1])
  /\ part[j + 2].msg = "retrying"

\* C5 (stop on first success): every call has one outcome; in a call's trace each
\* request but the last is a failed attempt followed by its retry line, so attempts
\* follow one another; a call that succeeded ends with the request answered 200 and
\* the Downloaded line, nothing after; a call reported Failed has only failed
\* attempts.
C5_StopOnSuccess ==
  \A i \in 1..Len(items) :
    /\ Returned(i) = IF InCall(i) THEN fidx[i] - 1
                     ELSE IF pc[i] = "done" THEN Len(files[i]) ELSE 0
    /\ \A k \in 1..Returned(i) :
         LET part == CallPart(i, k)
             n == Len(part)
         IN /\ \A j \in 1..n : IsGet(part[j]) => (FailedAt(part, j) \/ j = n - 1)
            /\ Outcomes(i)[k].msg = "downloaded" =>
                 /\ IsGet(part[n - 1])
                 /\ part[n - 1].code = OK200
                 /\ ~IsError(part[n])
            /\ Outcomes(i)[k].msg = "failed_after" =>
                 \A j \in 1..n : IsGet(part[j]) => FailedAt(part, j)

\* a call failed its first attempt, succeeded at the second and made no third
C5_Witness ==
  \E i \in 1..Len(items) :
    /\ max_retries = MaxRetries
    /\ Returned(i) = 1
    /\ Outcomes(i)[1].msg = "downloaded"
    /\ Len(Gets(CallPart(i, 1))) = 2
    /\ pc[i] = "done"

\* thread i's metadata request was answered and parsed
Resolved(i) == Len(trace[i]) >= 2 /\ IsGet(trace[i][2]) /\ trace[i][2].code = OK200

\* thread i's metadata request failed
Unresolved(i) == Len(trace[i]) >= 2 /\ IsGet(trace[i][2]) /\ trace[i][2].code = 0

\* C6 (partial-failure isolation): every identifier the search returned is taken up
\* and finished, whichever others fail: a finished identifier whose metadata
\* resolved has an outcome for every file it kept, one whose metadata failed has its
\* error line, main returns only with all of them finished, and it does return.
C6_Isolation ==
  /\ [](\A i \in 1..Len(items) :
          /\ pc[i] = "done" =>
               /\ Resolved(i) \/ Unresolved(i)
               /\ Resolved(i) => Returned(i) = Len(files[i])
               /\ Unresolved(i) => Last(trace[i]).msg = "metadata_error"
          /\ mpc = "done" => pc[i] = "done")
  /\ <>[](mpc = "done")

\* the run is over: the 4th identifier's metadata failed, the 1st one's first
\* download failed and its second succeeded, the 6th was processed
C6_Witness ==
  /\ mpc = "done"
  /\ Len(items) >= 6
  /\ Unresolved(4)
  /\ Returned(1) = 2
  /\ Outcomes(1)[1].msg = "failed_after"
  /\ Outcomes(1)[2].msg = "downloaded"
  /\ Resolved(6)

\* C7 (bounded concurrency): never more than max_workers identifiers are being
\* processed, however many were submitted; an identifier starts only while fewer
\* than max_workers are being processed, and one past the first max_workers only
\* after an earlier one has finished.
C7_BoundedPool ==
  /\ [](Cardinality(Running) <= max_workers /\ nthreads <= max_workers)
  /\ [][\A i \in 1..Len(items) :
          (pc[i] = "queued" /\ pc'[i] = "meta") =>
            /\ Cardinality(Running) < max_workers
            /\ i > max_workers => \E j \in 1..(i - 1) : pc[j] = "done"]_vars

\* max_workers identifiers are in flight while another waits in the queue
C7_Witness ==
  /\ Cardinality(Running) = max_workers
  /\ queue # <<>>
  /\ Len(items) > max_workers

\* thread j has had a download request for destination path answered 200, which
\* opened the file
Opened(j, path) ==
  \E k \in 3..Len(trace[j]) :
    /\ IsGet(trace[j][k])
    /\ trace[j][k].code = OK200
    /\ Filename(trace[j][k].what, download_dir) = path

\* thread i has issued a download request
Fetched(i) == \E k \in 3..Len(trace[i]) : IsGet(trace[i][k])

\* C8 as stated (same-url collision): of two workers downloading one url, at most
\* one issues a fetch; the other finds the file and is skipped.
C8_Original ==
  \A i, j \in 1..Len(items) :
    (i # j /\ items[i] = items[j]) => ~(Fetched(i) /\ Fetched(j))

\* C8 as amended: of two workers downloading one url to a destination absent at the
\* start, a worker is skipped, with no fetch, exactly when its existence check
\* comes after a request of the other was answered 200 and opened the file; when
\* both checks come before that, both fetch.
C8_SkipAfterOpen ==
  [][\A i \in 1..Len(items) :
       (pc[i] = "check" /\ Moved(i)) =>
         ((trace'[i] = Append(trace[i], Ev("exists_skip", Dest(i), 0, "", 0, 0)))
            <=> (\E j \in 1..Len(items) : j # i /\ Opened(j, Dest(i))))]_vars

\* one worker was skipped while the other, which opened the file, is still
\* writing it
C8_Witness ==
  \E i, j \in 1..Len(items) :
    /\ i # j
    /\ Returned(i) = 1
    /\ Outcomes(i)[1].msg = "exists_skip"
    /\ ~Fetched(i)
    /\ pc[j] = "stream"

\* the whitespace-separated terms of s: its maximal runs without a space
Terms(s) ==
  {SubSeq(s, r[1], r[2]) :
     r \in {q \in (1..Len(s)) \X (1..Len(s)) :
              /\ q[1] <= q[2]
              /\ \A k \in q[1]..q[2] : s[k] # " "
              /\ q[1] = 1 \/ s[q[1] - 1] = " "
              /\ q[2] = Len(s) \/ s[q[2] + 1] = " "}}

\* name satisfies the Matcher for kw: every term of the lower-cased keyword scores
\* at least threshold against the lower-cased name
Satisfies(name, kw, threshold) ==
  \A term \in Terms(Lower(kw)) : ratio[<<term, Lower(name)>>] >= threshold

\* C9 (filtering precedes download): with a keyword, every download request of a
\* run, first attempt or retry, is for a torrent file of the identifier's metadata
\* whose name satisfies the Matcher for the keyword.
C9_FilterBeforeFetch ==
  \A i \in 1..Len(items) : \A k \in 3..Len(trace[i]) :
    (IsGet(trace[i][k]) /\ Truthy(keyword)) =>
      \E name \in SeqToSet(server.meta[items[i]].files) :
        /\ trace[i][k].what = TorrentUrl(items[i], name)
        /\ Satisfies(name, keyword[1], default_threshold)

\* with keyword "a B", A.torrent was requested twice (a retry) while b.torrent,
\* one of whose terms scores 69, was never requested
C9_Witness ==
  /\ keyword = << <<"a", " ", "B">> >>
  /\ Len(items) = 1
  /\ pc[1] = "done"
  /\ files[1] = <<NameA>>
  /\ Len(Gets(CallPart(1, 1))) = 2
  /\ ~Satisfies(NameB, keyword[1], default_threshold)

\* C10 (conjunctive matching): match_terms(text, keyword, threshold) is true exactly
\* when every whitespace-separated term of the lower-cased keyword scores at least
\* threshold against the lower-cased text; with no term it is true.
C10_Conjunctive ==
  mt.called => (mt.result <=> Satisfies(mt.text, mt.kw, mt.threshold))

\* a two-term keyword of which one term reaches the threshold and the other does
\* not: the result is false
C10_Witness ==
  /\ mt.called
  /\ ~mt.result
  /\ Cardinality(Terms(Lower(mt.kw))) = 2
  /\ \E term \in Terms(Lower(mt.kw)) : ratio[<<term, Lower(mt.text)>>] >= mt.threshold

\* the search request failed: search_items logged its error line
SearchFailed == mpc # "search" /\ Last(mlog).msg = "search_error"

\* the search request was answered and its body parsed
SearchDone == mpc # "search" /\ Last(mlog).msg = "found"

\* C11 as stated (search failure is terminal): after a failed search main gives its
\* caller an error, not the value a run gives whose search found nothing.
C11_Original ==
  (mpc = "done" /\ SearchFailed) => mret.type = "error"

\* C11 as amended: a failed search is one request and one error line, and leaves
\* no identifier: no thread is started, so no metadata and no download request is
\* made; main then returns None, exactly as after a search that found no item.
C11_SearchFailure ==
  /\ SearchFailed =>
       /\ items = <<>>
       /\ trace = <<>>
       /\ queue = <<>> /\ nthreads = 0
       /\ Len(mlog) = 3
       /\ Gets(mlog) = <<Ev("GET", SearchUrl, 0, Last(mlog).err, 0, 0)>>
       /\ disk = NoDisk
  /\ (mpc = "done" /\ items = <<>>) => mret = PyNone
  /\ (SearchDone /\ server.docs = <<>>) => (items = <<>> /\ Last(mlog).n = 0)

\* the search timed out and main has returned None
C11_Witness ==
  /\ mpc = "done"
  /\ SearchFailed
  /\ Last(mlog).err = "Timeout"
  /\ mret = PyNone

\* the metadata document of item i has no files key
NoFilesKey(i) == ~server.meta[items[i]].has_files

\* C12 (missing files key): an identifier whose metadata document was fetched and
\* has no files key is finished at once: its thread logged the warning and nothing
\* else after the request (no error line), kept no file, called the Matcher for
\* none and made no download request.
C12_MissingFiles ==
  \A i \in 1..Len(items) :
    (NoFilesKey(i) /\ Resolved(i)) =>
      /\ trace[i] = <<Ev("fetching_metadata", MetadataUrl(items[i]), 0, "", 0, 0),
                      Ev("GET", MetadataUrl(items[i]), OK200, "", 0, 0),
                      Ev("no_files", items[i], 0, "", 0, 0)>>
      /\ files[i] = <<>>
      /\ mcalls[i] = <<>>
      /\ pc[i] = "done"

\* the third identifier, whose document has no files key, is finished with its
\* warning while the first is still downloading
C12_Witness ==
  /\ Len(items) >= 3
  /\ NoFilesKey(3)
  /\ pc[3] = "done"
  /\ Last(trace[3]).msg = "no_files"
  /\ pc[1] = "fetch"

\* a 2xx status
Is2xx(code) == code \in 200..299

\* the request thread i issues in this step, a step of its attempt's lines 48-49
Issued(i) == trace'[i][Len(trace[i]) + 1]

\* C13 (file written only on confirmed success): the step in which an attempt's
\* request is answered changes the directory only when the answer is a 2xx status,
\* and then only the destination file, which it creates or empties; an answer with
\* another status, a timeout or a transport fault leaves the whole directory as it
\* was; and every later write is by an attempt whose request was answered 2xx.
C13_WriteOnlyOn2xx ==
  /\ [](\A i \in 1..Len(items) :
          pc[i] = "stream" => Is2xx(Last(Gets(trace[i])).code))
  /\ [][\A i \in 1..Len(items) :
          (pc[i] = "fetch" /\ Moved(i)) =>
            /\ IsGet(Issued(i))
            /\ Issued(i).what = Url(i)
            /\ ~Is2xx(Issued(i).code) => disk' = disk
            /\ disk' # disk =>
                 /\ Is2xx(Issued(i).code)
                 /\ DOMAIN disk' = DOMAIN disk \cup {Dest(i)}
                 /\ disk'[Dest(i)] = <<>>
                 /\ \A f \in DOMAIN disk \ {Dest(i)} : disk'[f] = disk[f]]_vars
  /\ [][disk' # disk => \E i \in 1..Len(items) : pc[i] \in {"fetch", "stream"} /\ Moved(i)]_vars

\* a call's first attempt was answered 204 and its second timed out, both leaving
\* the directory empty; the third was answered 200 and created the file
C13_Witness ==
  \E i \in 1..Len(items) :
    /\ pc[i] = "stream"
    /\ Len(Gets(CallPart(i, 1))) = 3
    /\ Gets(CallPart(i, 1))[1].code = 204
    /\ Gets(CallPart(i, 1))[2].err = "Timeout"
    /\ Gets(CallPart(i, 1))[3].code = OK200
    /\ DOMAIN disk = {Dest(i)}

\* the unit of work of item i has reached its end: its metadata request failed, or
\* it was answered and every download_file call for the files kept has returned
UnitEnded(i) ==
  /\ pc[i] = "done"
  /\ \/ Unresolved(i) /\ Returned(i) = 0
     \/ Resolved(i) /\ Returned(i) = Len(files[i])

\* C14 (run drains before completing): once main has returned, every item of the
\* search was submitted, the queue is empty, no thread is at a metadata request or
\* in a download, and every unit of work has reached its end; after main's return
\* no thread logs, requests or writes anything; and main does return, each step
\* that can be taken being taken.
C14_Drains ==
  /\ [](mpc = "done" =>
          /\ nsub = Len(items) + 1
          /\ queue = <<>>
          /\ Running = {}
          /\ \A i \in 1..Len(items) : UnitEnded(i))
  /\ [][mpc = "done" => UNCHANGED <<trace, disk, pc, mret>>]_vars
  /\ <>(mpc = "done" /\ mret = PyNone)

\* main has returned from a run over more identifiers than the pool has workers,
\* the last of them processed and the second one's file downloaded
C14_Witness ==
  /\ mpc = "done"
  /\ Len(items) > max_workers
  /\ UnitEnded(Len(items))
  /\ Returned(2) = 1
  /\ Outcomes(2)[1].msg = "downloaded"
  /\ PathA \in DOMAIN disk

\* the matched descriptor files of the run: item i's k-th kept file
Matched == UNION {{<<i, k>> : k \in 1..Len(files[i])} : i \in 1..Len(items)}

\* the url of a matched descriptor file, and the file its download is named after:
\* the url's final path segment, in the download directory
UrlOf(p) == TorrentUrl(items[p[1]], files[p[1]][p[2]])
PathOf(p) == PathJoin(download_dir, LastSegment(UrlOf(p)))

\* the downloads that ended Succeeded
Succeeded ==
  UNION {{<<i, k>> : k \in {j \in 1..Returned(i) : Outcomes(i)[j].msg = "downloaded"}} :
           i \in 1..Len(items)}

\* the run is over and every fetch of it succeeded: the search, every metadata
\* request, and every download request (answered 200, its body streamed to the end)
RunSucceeded ==
  /\ mpc = "done"
  /\ SearchDone
  /\ \A i \in 1..Len(items) :
       /\ Resolved(i)
       /\ \A k \in 1..Len(trace[i]) : ~IsError(trace[i][k])

\* no two matched descriptor files share the final path segment of their urls
DistinctDests == \A p, q \in Matched : p # q => PathOf(p) # PathOf(q)

\* C15 as stated (one file per matched descriptor): after a run from an empty
\* directory (at least one attempt allowed) in which every fetch succeeded, every
\* matched descriptor file has a Succeeded outcome and its file on disk, and the
\* Succeeded outcomes and the files on disk are as many as the matched files.
C15_Original ==
  (RunSucceeded /\ max_retries >= 1) =>
    /\ \A p \in Matched : p \in Succeeded /\ PathOf(p) \in DOMAIN disk
    /\ Cardinality(Succeeded) = Cardinality(Matched)
    /\ Cardinality(DOMAIN disk) = Cardinality(Matched)

\* C15 as amended: after such a run every matched descriptor file has a Succeeded
\* or a Skipped outcome and the files on disk are exactly those named after the
\* matched files' urls; when no two matched files share the final path segment of
\* their urls, every one is Succeeded after a single request, and the Succeeded
\* outcomes and the files on disk are as many as the matched files.
C15_OneFilePerDescriptor ==
  (RunSucceeded /\ max_retries >= 1) =>
    /\ \A i \in 1..Len(items) : Returned(i) = Len(files[i])
    /\ \A p \in Matched :
         Outcomes(p[1])[p[2]].msg \in {"downloaded", "exists_skip"}
    /\ DOMAIN disk = {PathOf(p) : p \in Matched}
    /\ DistinctDests =>
         /\ \A p \in Matched :
              /\ p \in Succeeded
              /\ Len(Gets(CallPart(p[1], p[2]))) = 1
         /\ Cardinality(Succeeded) = Cardinality(Matched)
         /\ Cardinality(DOMAIN disk) = Cardinality(Matched)

\* two identifiers with one descriptor file each, of different names: two
\* Succeeded outcomes and two files
C15_Witness ==
  /\ RunSucceeded
  /\ Len(items) = 2
  /\ files = << <<NameA>>, <<NameB>> >>
  /\ Cardinality(Succeeded) = 2
  /\ DOMAIN disk = {PathA, PathJoin(download_dir, NameB)}

\* s is a prefix of t
IsPrefix(s, t) == Len(s) <= Len(t) /\ SubSeq(t, 1, Len(s)) = s

\* C16 as stated (outcome aggregation): after a run that had downloads, main
\* returns the list of the outcomes of all of them, in the order the identifiers
\* were submitted.
C16_Original ==
  (mpc = "done" /\ \E i \in 1..Len(items) : Returned(i) >= 1) =>
    (mret.type = "list" /\ mret.val = OutcomesUpTo(Len(items)))

\* C16 as amended: main returns None in every run; an outcome exists only as the
\* line its worker thread logged when the download ended: each thread's outcomes are
\* those of its identifier's kept files in file order, one is added at a time and
\* none is changed afterwards.
C16_NoAggregation ==
  /\ [](mret = IF mpc = "done" THEN PyNone ELSE NotReturned)
  /\ [](\A i \in 1..Len(items) : \A k \in 1..Returned(i) :
          Outcomes(i)[k].what \in
            {TorrentUrl(items[i], files[i][k]),
             Filename(TorrentUrl(items[i], files[i][k]), download_dir)})
  /\ [][\A i \in 1..Len(items) :
          /\ IsPrefix(Outcomes(i), Outcomes(i)')
          /\ Returned(i)' <= Returned(i) + 1]_vars

\* the second identifier's download has its outcome while the first identifier,
\* submitted before it, has none yet
C16_Witness ==
  /\ Len(items) >= 2
  /\ Returned(2) = 1
  /\ Returned(1) = 0
  /\ pc[1] = "stream"
  /\ mret = NotReturned

\* thread i's current download_file call returns in this step, logging line msg
CallEnds(i, msg) ==
  /\ InCall(i)
  /\ Returned(i)' = Returned(i) + 1
  /\ Last(trace'[i]).msg = msg

\* C17 (no partial file survives): a download_file call that ends Failed leaves no
\* file at its destination, an attempt that broke off while streaming included; and
\* a call is Skipped only for a file that was there from the start or that the
\* call before it, for the same url, downloaded to the end or itself skipped.
C17_NoPartialFile ==
  [][\A i \in 1..Len(items) :
       /\ CallEnds(i, "failed_after") => Dest(i) \notin DOMAIN disk'
       /\ (CallEnds(i, "exists_skip") /\ SecondRun(i)) =>
            Outcomes(i)[fidx[i] - 1].msg \in {"downloaded", "exists_skip"}]_vars

\* the matching files of item i, in the order of its metadata document: the torrent
\* files, with a keyword those whose name satisfies the Matcher
MatchingFiles(i) ==
  SelectSeq(server.meta[items[i]].files,
            LAMBDA name : /\ EndsWith(name, TorrentSuffix)
                          /\ Truthy(keyword) => Satisfies(name, keyword[1], default_threshold))

\* every line of part names the file at url: the requests and the error lines by
\* the url, the skip and Downloaded lines by its destination path
AllAbout(part, url) ==
  \A j \in 1..Len(part) :
    \/ part[j].msg = "retrying"
    \/ part[j].what = url
    \/ /\ part[j].msg \in {"exists_skip", "downloaded"}
       /\ part[j].what = Filename(url, download_dir)

\* C18 (in-order, sequential files within an identifier): the k-th download_file
\* call of a thread is for the k-th matching file of the metadata document; while
\* the call for a file is under way the calls for all earlier files have returned
\* and none for a later file has started; a call that returns, Failed included, is
\* followed by the call for the next file, and the thread ends with one outcome per
\* matching file.
C18_InOrder ==
  /\ [](\A i \in 1..Len(items) :
          (Resolved(i) /\ ~NoFilesKey(i)) =>
            /\ files[i] = MatchingFiles(i)
            /\ InCall(i) => Returned(i) = fidx[i] - 1
            /\ pc[i] = "done" => Returned(i) = Len(MatchingFiles(i))
            /\ \A k \in 1..Len(files[i]) :
                 (k <= Returned(i) \/ (InCall(i) /\ k = fidx[i])) =>
                   AllAbout(CallPart(i, k), TorrentUrl(items[i], MatchingFiles(i)[k])))
  /\ [][\A i \in 1..Len(items) :
          (InCall(i) /\ Returned(i)' = Returned(i) + 1) =>
            /\ fidx'[i] = fidx[i] + 1
            /\ pc'[i] = IF fidx[i] < Len(files[i]) THEN "check" ELSE "done"]_vars

\* with two matching files, the download of the first ended Failed and the second,
\* started after it, was downloaded
C18_Witness ==
  /\ Len(items) = 1
  /\ pc[1] = "done"
  /\ files[1] = <<NameA, NameB>>
  /\ Outcomes(1)[1] = Ev("failed_after", TorrentUrl(items[1], NameA), 0, "", 0, max_retries)
  /\ Outcomes(1)[2].msg = "downloaded"

\* the requests thread i made to the metadata endpoint, and to the download endpoint
MetaGets(i) == SelectSeq(trace[i], LAMBDA e : IsGet(e) /\ e.what = MetadataUrl(items[i]))
DownloadGets(i) ==
  SelectSeq(trace[i], LAMBDA e : IsGet(e) /\ \E name \in SeqToSet(files[i]) :
                                               e.what = TorrentUrl(items[i], name))

\* C19 (no retries outside the retry wrapper): a run makes one request to the
\* search endpoint, answered or failed; every doc of the answer becomes one work
\* item, submitted once, in order; the thread of a work item makes one request to
\* the metadata endpoint, answered or failed, and all its other requests are
\* download requests; at main's return every item has had its one metadata
\* request.
C19_NoOtherRetries ==
  /\ Gets(mlog) = IF mpc = "search" THEN <<>>
                  ELSE <<Ev("GET", SearchUrl, Gets(mlog)[1].code, Gets(mlog)[1].err, 0, 0)>>
  /\ SearchDone => items = server.docs
  /\ Cardinality(SeqToSet(queue)) = Len(queue)
  /\ \A i \in 1..Len(items) :
       /\ pc[i] = "new" <=> i >= nsub
       /\ pc[i] = "queued" <=> i \in SeqToSet(queue)
       /\ Len(MetaGets(i)) = IF pc[i] \in {"new", "queued", "meta"} THEN 0 ELSE 1
       /\ Len(Gets(trace[i])) = Len(MetaGets(i)) + Len(DownloadGets(i))
       /\ Len(DownloadGets(i)) > 0 => Resolved(i)
  /\ mpc = "done" => \A i \in 1..Len(items) : Len(MetaGets(i)) = 1

\* the run is over: the first identifier's metadata request failed and was made
\* once, the second identifier's download was requested twice
C19_Witness ==
  /\ mpc = "done"
  /\ Len(items) = 2
  /\ Unresolved(1) /\ Len(Gets(trace[1])) = 1
  /\ Len(MetaGets(2)) = 1
  /\ Len(DownloadGets(2)) = 2

\* the entries of item i's files array whose name ends with the suffix, in order
SuffixEntries(i) ==
  SelectSeq(server.meta[items[i]].files, LAMBDA name : EndsWith(name, TorrentSuffix))

\* C20 (candidate set without a keyword): when the keyword is None or empty and
\* the metadata document was fetched with its files array, the Matcher is called
\* for no name, the files kept are exactly the entries whose name ends with the
\* .torrent suffix, and download_file is called once for each of them and for
\* nothing else; and in any run, with a keyword or without, every download request
\* is for a name with the suffix, the Matcher being asked about such names only.
C20_CandidateSet ==
  \A i \in 1..Len(items) :
    /\ (~Truthy(keyword) /\ Resolved(i) /\ ~NoFilesKey(i)) =>
         /\ mcalls[i] = <<>>
         /\ files[i] = SuffixEntries(i)
         /\ Returned(i) <= Len(SuffixEntries(i))
         /\ pc[i] = "done" => Returned(i) = Len(SuffixEntries(i))
         /\ \A k \in 1..Returned(i) :
              AllAbout(CallPart(i, k), TorrentUrl(items[i], SuffixEntries(i)[k]))
    /\ \A k \in 1..Len(DownloadGets(i)) : EndsWith(DownloadGets(i)[k].what, TorrentSuffix)
    /\ Len(Gets(trace[i])) = Len(MetaGets(i)) + Len(DownloadGets(i))
    /\ \A k \in 1..Len(mcalls[i]) : EndsWith(mcalls[i][k], TorrentSuffix)
    /\ \A k \in 1..Len(files[i]) : EndsWith(files[i][k], TorrentSuffix)

\* with the empty keyword both torrent files of the document were downloaded, the
\* other file was not, and the Matcher was not called
C20_Witness ==
  /\ keyword = << <<>> >>
  /\ Len(items) = 1
  /\ pc[1] = "done"
  /\ files[1] = <<NameA, NameB>>
  /\ mcalls[1] = <<>>
  /\ Outcomes(1)[1].msg = "downloaded"
  /\ Outcomes(1)[2].msg = "downloaded"
  /\ DOMAIN disk = {PathA, PathJoin(download_dir, NameB)}

====
